---- MODULE Spec2Model ----
(***************************************************************************)
(* Model of datasets/preprocess_data.py: the blob cropping function        *)
(* crop_to_boxes_of_interset_cc and the batch driver create_dataset.       *)
(*                                                                         *)
(* A label volume is a function from voxels <<z, y, x>> (axis order depth, *)
(* height, width, 0-based as in numpy) to integer labels.  A boolean array *)
(* is the set of its True voxels.  A slice is a record [start, stop] with  *)
(* numpy's half-open meaning; an array view cut by three slices is         *)
(* represented by the slices and the array they cut.                       *)
(***************************************************************************)
EXTENDS Integers, Sequences, FiniteSets

VARIABLES
    files,        \* the directory listing: the source pairs, in iteration order
    config,       \* the arguments of create_dataset / crop_to_boxes_of_interset_cc
    pc,           \* position of the program
    file_idx,     \* number of source pairs read so far
    seg_array,    \* the loaded label volume (sitk.GetArrayFromImage(seg))
    all_blobs,    \* the crops returned for the loaded pair
    blob_idx,     \* number of crops of the loaded pair already processed
    disk,         \* persisted arrays: path -> content
    writes        \* history of np.save calls, in order

vars == <<files, config, pc, file_idx, seg_array, all_blobs, blob_idx, disk, writes>>

----------------------------------------------------------------------------
(* Bounds of the model *)

\* shape (depth, height, width) of the scans of an input directory
Shape == <<1, 2, 4>>
\* shape of the label volumes handed to crop_to_boxes_of_interset_cc directly
CallShape == <<1, 3, 3>>
\* largest per-axis margin tried
MaxMargin == 2
\* largest number of source pairs in the input directory
MaxFiles == 2
\* largest number of foreground voxels in the label volumes of one directory
MaxForeground == 2

Axes == 1..3

Max(a, b) == IF a >= b THEN a ELSE b
Min(a, b) == IF a <= b THEN a ELSE b

SetMin(S) == CHOOSE m \in S : \A e \in S : m <= e
SetMax(S) == CHOOSE m \in S : \A e \in S : m >= e

Voxels(shape) ==
    {<<z, y, x>> : z \in 0..(shape[1] - 1), y \in 0..(shape[2] - 1), x \in 0..(shape[3] - 1)}

\* array.shape of a non-empty array
ShapeOf(array) == [i \in Axes |-> SetMax({v[i] : v \in DOMAIN array}) + 1]

\* position of a voxel in C (row-major) memory order
Rank(v, shape) == (v[1] * shape[2] + v[2]) * shape[3] + v[3]

RECURSIVE SetSum(_, _)
SetSum(S, f) ==
    IF S = {} THEN 0
    ELSE LET e == CHOOSE e \in S : TRUE IN f[e] + SetSum(S \ {e}, f)


----------------------------------------------------------------------------
(* scipy.ndimage.binary_dilation with the default structuring element      *)
(* (generate_binary_structure(3, 1): a voxel and its 6 face neighbours),   *)
(* border_value 0.                                                         *)

FaceAdjacent(u, v) ==
    Max(u[1] - v[1], v[1] - u[1]) + Max(u[2] - v[2], v[2] - u[2])
        + Max(u[3] - v[3], v[3] - u[3]) <= 1

DilateOnce(mask, shape) == {v \in Voxels(shape) : \E u \in mask : FaceAdjacent(u, v)}

\* iterations >= 1: that many dilations; iterations < 1: until nothing changes
RECURSIVE binary_dilation(_, _, _)
binary_dilation(mask, shape, iterations) ==
    LET grown == DilateOnce(mask, shape)
    IN IF iterations = 1 \/ grown = mask THEN grown
       ELSE binary_dilation(grown, shape, IF iterations < 1 THEN iterations ELSE iterations - 1)

(* cc3d.connected_components with its default connectivity 26: voxels      *)
(* are adjacent when they differ by at most 1 along every axis.  Labels    *)
(* 1..N are given in the order in which the components are first met in    *)
(* memory order; background is 0.                                          *)

Adjacent26(u, v) ==
    /\ u[1] - v[1] \in -1..1
    /\ u[2] - v[2] \in -1..1
    /\ u[3] - v[3] \in -1..1

RECURSIVE Flood(_, _, _)
Flood(frontier, seen, mask) ==
    IF frontier = {} THEN seen
    ELSE LET next == {v \in mask \ seen : \E u \in frontier : Adjacent26(u, v)}
         IN Flood(next, seen \cup next, mask)

FirstVoxel(S, shape) == CHOOSE v \in S : \A u \in S : Rank(v, shape) <= Rank(u, shape)

\* the components of mask as a sequence of voxel sets, in label order
RECURSIVE ComponentSeq(_, _)
ComponentSeq(mask, shape) ==
    IF mask = {} THEN <<>>
    ELSE LET v == FirstVoxel(mask, shape)
             c == Flood({v}, {v}, mask)
         IN <<c>> \o ComponentSeq(mask \ c, shape)

connected_components(mask, shape) ==
    LET comps == ComponentSeq(mask, shape)
    IN [v \in Voxels(shape) |->
            IF v \in mask THEN CHOOSE k \in 1..Len(comps) : v \in comps[k] ELSE 0]

\* cc3d.each(cc, binary=True): the labels 1..max(cc), ascending
NumLabels(cc) == SetMax({cc[v] : v \in DOMAIN cc} \cup {0})

----------------------------------------------------------------------------
(* numpy slicing *)

\* length of axis of extent dim after slicing with slice(start, stop), 0 <= start
SliceLen(s, dim) == Max(0, Min(s.stop, dim) - s.start)

\* the voxels of an array of this shape selected by three slices
BoxVoxels(ranges, shape) ==
    {v \in Voxels(shape) : \A i \in Axes : ranges[i].start <= v[i] /\ v[i] < ranges[i].stop}

\* shape of array[ranges]
SlicedShape(ranges, shape) == [i \in Axes |-> SliceLen(ranges[i], shape[i])]

----------------------------------------------------------------------------
(* cropping_params and crop_to_boxes_of_interset_cc                         *)

\* the cropping_params object; allowed_perc_other_blobs is the exact
\* fraction num/den (a float with a power-of-two denominator)
cropping_params(cropping_lable, slice_margins, allowed_perc_other_blobs, mask_dilation) ==
    [cropping_lable |-> cropping_lable,
     slice_margins |-> slice_margins,
     allowed_perc_other_blobs |-> allowed_perc_other_blobs,
     mask_dilation |-> mask_dilation]

\* line 96: labels_volume == params.cropping_lable
binary_volume(labels_volume, cropping_lable) ==
    {v \in DOMAIN labels_volume : labels_volume[v] = cropping_lable}

\* lines 96-97: the array handed to the labeling.  binary_dilation returns
\* a new array, which line 97 drops: binary_volume is left as it was.
LabelingInput(labels_volume, shape, params) ==
    LET binary == binary_volume(labels_volume, params.cropping_lable)
        dilated == binary_dilation(binary, shape, params.mask_dilation)
    IN binary

\* line 99
LabeledComponents(labels_volume, shape, params) ==
    connected_components(LabelingInput(labels_volume, shape, params), shape)

\* line 101: np.where(image), image being cc == label
nwhere(cc, label) == {v \in DOMAIN cc : cc[v] = label}

\* line 102
relevant_ranges(image) ==
    [i \in Axes |-> [start |-> SetMin({v[i] : v \in image}),
                     stop |-> SetMax({v[i] : v \in image}) + 1]]

\* the elements of a set of integers, ascending
RECURSIVE SortedSeq(_)
SortedSeq(S) ==
    IF S = {} THEN <<>>
    ELSE LET m == SetMin(S) IN <<m>> \o SortedSeq(S \ {m})

\* mutant of other_non_bg_occurances: np.delete removes only the blob's own
\* count, so the background voxels of the box are counted too
other_non_bg_occurances_KeepsBackground(cc, label, shape) ==
    LET box == BoxVoxels(relevant_ranges(nwhere(cc, label)), shape)
    IN Cardinality({v \in box : cc[v] # label})

\* lines 103-105: np.unique with counts over the tight box, the position of
\* label among the values, and the sum of the counts left after np.delete
\* removes positions 0 and label_idx (positions here are 1-based)
other_non_bg_occurances(cc, label, shape) ==
    LET box == BoxVoxels(relevant_ranges(nwhere(cc, label)), shape)
        values == SortedSeq({cc[v] : v \in box})
        counts == [k \in 1..Len(values) |-> Cardinality({v \in box : cc[v] = values[k]})]
        label_idx == CHOOSE k \in 1..Len(values) : values[k] = label
        kept == (1..Len(values)) \ {1, label_idx}
    IN SetSum(kept, counts)

\* cc[relevant_ranges].size
BoxSize(cc, label, shape) ==
    Cardinality(BoxVoxels(relevant_ranges(nwhere(cc, label)), shape))

\* mutant of TooManyOverlapping: >= in place of >
TooManyOverlapping_AtLeast(other, size, allowed) ==
    other * allowed[2] >= allowed[1] * size

\* line 108: other / size > allowed, the quotient and the tolerance compared
\* exactly (both are exact or correctly rounded doubles of small fractions)
TooManyOverlapping(other, size, allowed) ==
    other * allowed[2] > allowed[1] * size

\* lines 111-113
ranges_with_margins(image, slice_margins) ==
    [i \in Axes |->
        [start |-> Max(0, SetMin({v[i] : v \in image}) - slice_margins[i]),
         stop |-> SetMax({v[i] : v \in image}) + slice_margins[i]]]

\* line 114: the three numbers joined by "-"; the numbers are never
\* negative, so the joined strings are equal exactly when the triples are
location_string(ranges) ==
    [i \in Axes |-> (ranges[i].stop - ranges[i].start) \div 2]

\* lines 100-115, one iteration: does the blob pass the overlap test
BlobAccepted(cc, label, shape, params) ==
    ~TooManyOverlapping(other_non_bg_occurances(cc, label, shape),
                        BoxSize(cc, label, shape),
                        params.allowed_perc_other_blobs)

\* line 115: the appended tuple.  The two arrays are views of image_volume
\* and labels_volume cut by ranges; label records which blob it came from.
CropOf(cc, label, params) ==
    LET ranges == ranges_with_margins(nwhere(cc, label), params.slice_margins)
    IN [ranges |-> ranges, location_string |-> location_string(ranges), label |-> label]

\* lines 93-117
crop_to_boxes_of_interset_cc(labels_volume, shape, params) ==
    LET cc == LabeledComponents(labels_volume, shape, params)
        labels == [k \in 1..NumLabels(cc) |-> k]
        accepted == SelectSeq(labels, LAMBDA k : BlobAccepted(cc, k, shape, params))
    IN [n \in 1..Len(accepted) |-> CropOf(cc, accepted[n], params)]

----------------------------------------------------------------------------
(* create_dataset                                                          *)

\* mutant of ShapesEqual: the assertion is not made
ShapesEqual_Unchecked(seg_shape, ct_shape) == TRUE

\* line 148: assert (seg_array.shape == ct_array.shape)
ShapesEqual(seg_shape, ct_shape) == seg_shape = ct_shape

\* lines 155-158: a crop whose arrays are the whole ct_array and seg_array
\* and whose location_string is ""
WholeVolume(shape) ==
    [ranges |-> [i \in Axes |-> [start |-> 0, stop |-> shape[i]]],
     location_string |-> <<>>,
     label |-> 0]

BlobsOf(labels_volume, shape, crop_params) ==
    IF crop_params # <<>>
    THEN crop_to_boxes_of_interset_cc(labels_volume, shape, crop_params[1])
    ELSE <<WholeVolume(shape)>>

\* array[array == from] = to, array being the view of volume cut by box
AssignWhere(volume, box, from, to) ==
    [v \in DOMAIN volume |-> IF v \in box /\ volume[v] = from THEN to ELSE volume[v]]

\* mutant of remove_liver: label 1 is not cleared before 2 becomes 1
remove_liver_KeepsLiver(volume, box) ==
    [v \in DOMAIN volume |-> IF v \in box /\ volume[v] = 2 THEN 1 ELSE volume[v]]

\* lines 164-165, on the view seg_array of the loaded label volume
remove_liver(volume, box) ==
    AssignWhere(AssignWhere(volume, box, 1, 0), box, 2, 1)

\* Python's round() of the non-negative fraction p/q: to nearest, ties to even
RoundHalfEven(p, q) ==
    LET fl == p \div q
        r == p % q
    IN IF 2 * r < q THEN fl
       ELSE IF 2 * r > q THEN fl + 1
       ELSE IF fl % 2 = 0 THEN fl ELSE fl + 1

\* line 168
NeedsResample(cfg) == cfg.slice_size_mm # 1 \/ cfg.spatial_scale # <<1, 1>>

\* line 169: the three zoom factors, each a fraction <<num, den>>
new_dims(spacing, cfg) ==
    <<<<spacing, cfg.slice_size_mm>>, cfg.spatial_scale, cfg.spatial_scale>>

\* lines 170-171: the shape ndimage.zoom returns, round(length * factor) per axis
zoom_shape(shape, dims) ==
    [i \in Axes |-> RoundHalfEven(shape[i] * dims[i][1], dims[i][2])]

\* mutant of TooSmall: np.all in place of np.any
TooSmall_AllAxes(shape, min_sizes) == \A i \in Axes : shape[i] < min_sizes[i]

\* line 174: np.any(ct_array.shape < np.array(min_sizes))
TooSmall(shape, min_sizes) == \E i \in Axes : shape[i] < min_sizes[i]

\* str.replace('volume', 'segmentation') on a string given as its pieces
ReplaceVolume(pieces) ==
    [k \in DOMAIN pieces |-> IF pieces[k] = "volume" THEN "segmentation" ELSE pieces[k]]

\* os.path.splitext(ct_filename)[0]: the name without its last extension
splitext0(ct_filename) == SubSeq(ct_filename, 1, Len(ct_filename) - 1)

\* lines 130-135; the directory name is built from the configuration only
new_ct_dir == <<"processed_dir", "ct">>
new_seg_dir == <<"processed_dir", "seg">>

\* lines 178-184: the path of the CT array.  The file name is the base name
\* followed by "-(<location_string>).npy" or "-<blob_idx>.npy".
CtPath(ct_filename, crop, idx) ==
    [dir |-> new_ct_dir,
     base |-> splitext0(ct_filename),
     tag |-> IF crop.location_string # <<>>
             THEN [kind |-> "location", location_string |-> crop.location_string, blob_idx |-> 0]
             ELSE [kind |-> "index", location_string |-> <<>>, blob_idx |-> idx]]

\* line 186: path.replace('volume', 'segmentation'); the tag holds only
\* digits, "-", "(", ")" and ".npy"
SegPath(path) ==
    [path EXCEPT !.dir = ReplaceVolume(@), !.base = ReplaceVolume(@)]

\* np.save: the file at path now holds content
Save(d, path, content) ==
    {e \in d : e.path # path} \cup {[path |-> path, content |-> content]}

----------------------------------------------------------------------------
(* Inputs                                                                  *)

Labels == 0..2

\* every label volume of shape CallShape
AllVolumes == [Voxels(CallShape) -> Labels]

\* the label volumes with exactly k foreground voxels
VolumesWith(k) ==
    UNION {{[v \in Voxels(Shape) |-> IF v \in S THEN g[v] ELSE 0] : g \in [S -> Labels \ {0}]}
           : S \in {T \in SUBSET Voxels(Shape) : Cardinality(T) = k}}

\* the sequences of n label volumes with at most budget foreground voxels in all
RECURSIVE SegLists(_, _)
SegLists(n, budget) ==
    IF n = 0 THEN {<<>>}
    ELSE UNION {{<<vol>> \o rest : vol \in VolumesWith(k), rest \in SegLists(n - 1, budget - k)}
                : k \in 0..budget}

\* CT file names, as pieces: <prefix><number>.nii, the last piece being the
\* extension.  A directory follows one naming convention.
Prefixes == {"volume", "scan"}
Numbers == <<"-0", "-1", "-2", "-3">>
Filename(prefix, i) == <<prefix, Numbers[i], ".nii">>

\* a CT array whose shape differs from its label volume's: one slice more
MismatchedShape == [Shape EXCEPT ![1] = @ + 1]

\* slice spacing (ct.GetSpacing()[-1]) of the i-th scan: 2, 1, 2, ...
SpacingOf(i) == 1 + (i % 2)

\* the directories: up to MaxFiles pairs, at most one of them (bad) with
\* mismatched shapes
Listings ==
    UNION {{[i \in 1..n |-> [ct_filename |-> Filename(prefix, i),
                             ct_shape |-> IF i = bad THEN MismatchedShape ELSE Shape,
                             seg |-> segs[i],
                             spacing |-> SpacingOf(i)]]
            : prefix \in Prefixes, bad \in 0..n, segs \in SegLists(n, MaxForeground)}
           : n \in 0..MaxFiles}

MarginChoices == {<<Min(m, 1), m, m>> : m \in 0..MaxMargin}

\* the tolerances tried: 0, 1/9 and the default 0.5
Tolerances == {<<0, 1>>, <<1, 9>>, <<1, 2>>}

Configs ==
    {[crop_params |-> cp, remove_liver_label |-> rl, min_sizes |-> ms,
      slice_size_mm |-> rs[1], spatial_scale |-> rs[2]]
     : cp \in {<<>>} \cup {<<cropping_params(l, m, <<1, 2>>, 3)>>
                            : l \in {1, 2}, m \in MarginChoices},
       rl \in BOOLEAN,
       ms \in {<<1, 1, 1>>, <<1, 2, 2>>},
       rs \in {<<1, <<1, 1>>>>, <<2, <<1, 1>>>>, <<1, <<1, 2>>>>}}

\* margins of a direct call: none, and those of the documented scenario
CallMargins == {<<0, 0, 0>>, <<1, 2, 2>>}

\* the arguments of a direct call of crop_to_boxes_of_interset_cc, with one
\* dilation iteration asked for; the other fields are the defaults of
\* create_dataset
CropConfigs ==
    {[crop_params |-> <<cropping_params(l, m, a, 1)>>, remove_liver_label |-> FALSE,
      min_sizes |-> <<4, 10, 10>>, slice_size_mm |-> 1, spatial_scale |-> <<1, 1>>]
     : l \in {1, 2}, m \in CallMargins, a \in Tolerances}

NoVolume == [v \in Voxels(Shape) |-> 0]

----------------------------------------------------------------------------
(* create_dataset as a state machine                                       *)

Init ==
    /\ files \in Listings
    /\ config \in Configs
    /\ pc = "listing"
    /\ file_idx = 0
    /\ seg_array = NoVolume
    /\ all_blobs = <<>>
    /\ blob_idx = 0
    /\ disk = {}
    /\ writes = <<>>

\* lines 141-158: the next pair is read, its shapes agree, its crops are cut
ReadPair ==
    /\ pc = "listing"
    /\ file_idx < Len(files)
    /\ ShapesEqual(ShapeOf(files[file_idx + 1].seg), files[file_idx + 1].ct_shape)
    /\ file_idx' = file_idx + 1
    /\ seg_array' = files[file_idx + 1].seg
    /\ all_blobs' = BlobsOf(files[file_idx + 1].seg, ShapeOf(files[file_idx + 1].seg),
                            config.crop_params)
    /\ blob_idx' = 0
    /\ pc' = "blobs"
    /\ UNCHANGED <<files, config, disk, writes>>

\* lines 141-148: the next pair is read and the assertion fails; the
\* AssertionError is not caught and ends the run
AssertionFails ==
    /\ pc = "listing"
    /\ file_idx < Len(files)
    /\ ~ShapesEqual(ShapeOf(files[file_idx + 1].seg), files[file_idx + 1].ct_shape)
    /\ file_idx' = file_idx + 1
    /\ seg_array' = files[file_idx + 1].seg
    /\ pc' = "halted"
    /\ UNCHANGED <<files, config, all_blobs, blob_idx, disk, writes>>

CurFile == files[file_idx]
CurCrop == all_blobs[blob_idx + 1]
CurBox == BoxVoxels(CurCrop.ranges, ShapeOf(seg_array))

\* lines 163-165: the loaded label volume after this crop's remapping
AfterRemap ==
    IF config.remove_liver_label THEN remove_liver(seg_array, CurBox) ELSE seg_array

\* lines 167-171: the shapes of ct_array and seg_array after the resampling step
CtFinalShape ==
    LET shape == SlicedShape(CurCrop.ranges, CurFile.ct_shape)
    IN IF NeedsResample(config) THEN zoom_shape(shape, new_dims(CurFile.spacing, config))
       ELSE shape

SegFinalShape ==
    LET shape == SlicedShape(CurCrop.ranges, ShapeOf(seg_array))
    IN IF NeedsResample(config) THEN zoom_shape(shape, new_dims(CurFile.spacing, config))
       ELSE shape

\* ndimage.zoom is handed, or asked to return, an array with an empty axis
DegenerateZoom ==
    /\ NeedsResample(config)
    /\ \E i \in Axes : SlicedShape(CurCrop.ranges, CurFile.ct_shape)[i] = 0 \/ CtFinalShape[i] = 0

\* the persisted label values, by position in the loaded volume; the values
\* of a resampled array are not modelled
SegValues ==
    IF NeedsResample(config) THEN [v \in {} |-> 0] ELSE [v \in CurBox |-> AfterRemap[v]]

\* lines 160-175: a crop that the size gate drops
DropBlob ==
    /\ pc = "blobs"
    /\ blob_idx < Len(all_blobs)
    /\ TooSmall(CtFinalShape, config.min_sizes)
    /\ seg_array' = AfterRemap
    /\ blob_idx' = blob_idx + 1
    /\ UNCHANGED <<files, config, pc, file_idx, all_blobs, disk, writes>>

\* lines 160-186: a crop that is persisted
SaveBlob ==
    /\ pc = "blobs"
    /\ blob_idx < Len(all_blobs)
    /\ ~TooSmall(CtFinalShape, config.min_sizes)
    /\ LET path == CtPath(CurFile.ct_filename, CurCrop, blob_idx)
           ct == [array |-> "ct", shape |-> CtFinalShape, values |-> [v \in {} |-> 0],
                  resampled |-> NeedsResample(config), src |-> file_idx, blob |-> blob_idx]
           seg == [array |-> "seg", shape |-> SegFinalShape, values |-> SegValues,
                   resampled |-> NeedsResample(config), src |-> file_idx, blob |-> blob_idx]
       IN /\ disk' = Save(Save(disk, path, ct), SegPath(path), seg)
          /\ writes' = writes \o <<[path |-> path, content |-> ct],
                                   [path |-> SegPath(path), content |-> seg]>>
    /\ seg_array' = AfterRemap
    /\ blob_idx' = blob_idx + 1
    /\ UNCHANGED <<files, config, pc, file_idx, all_blobs>>

\* lines 160-171: ndimage.zoom raises on an array with an empty axis (it may
\* also return the empty array: then DropBlob or SaveBlob applies)
ZoomFails ==
    /\ pc = "blobs"
    /\ blob_idx < Len(all_blobs)
    /\ DegenerateZoom
    /\ seg_array' = AfterRemap
    /\ pc' = "crashed"
    /\ UNCHANGED <<files, config, file_idx, all_blobs, blob_idx, disk, writes>>

\* line 160: the crops of the loaded pair are exhausted
EndOfBlobs ==
    /\ pc = "blobs"
    /\ blob_idx = Len(all_blobs)
    /\ pc' = "listing"
    /\ UNCHANGED <<files, config, file_idx, seg_array, all_blobs, blob_idx, disk, writes>>

\* lines 141, 188: the listing is exhausted
Finish ==
    /\ pc = "listing"
    /\ file_idx = Len(files)
    /\ pc' = "done"
    /\ UNCHANGED <<files, config, file_idx, seg_array, all_blobs, blob_idx, disk, writes>>

Next ==
    \/ ReadPair
    \/ AssertionFails
    \/ DropBlob
    \/ SaveBlob
    \/ ZoomFails
    \/ EndOfBlobs
    \/ Finish

Spec == Init /\ [][Next]_vars

----------------------------------------------------------------------------
(* crop_to_boxes_of_interset_cc called on its own                          *)

InitCrop ==
    /\ files = <<>>
    /\ config \in CropConfigs
    /\ pc = "call"
    /\ file_idx = 0
    /\ seg_array \in AllVolumes
    /\ all_blobs = <<>>
    /\ blob_idx = 0
    /\ disk = {}
    /\ writes = <<>>

\* lines 93-117
CallCrop ==
    /\ pc = "call"
    /\ all_blobs' = crop_to_boxes_of_interset_cc(seg_array, ShapeOf(seg_array),
                                                 config.crop_params[1])
    /\ pc' = "returned"
    /\ UNCHANGED <<files, config, file_idx, seg_array, blob_idx, disk, writes>>

NextCrop == CallCrop

SpecCrop == InitCrop /\ [][NextCrop]_vars

----------------------------------------------------------------------------------------------------------------------------------------------
(* Properties of crop_to_boxes_of_interset_cc, checked under SpecCrop       *)

CallParams == config.crop_params[1]
CallCC == LabeledComponents(seg_array, ShapeOf(seg_array), CallParams)
AcceptedLabels == {all_blobs[n].label : n \in DOMAIN all_blobs}

\* the tight bounding box of component c of the labeling cc: per axis,
\* smallest index to largest index + 1
TightBox(cc, c) ==
    LET image == {v \in DOMAIN cc : cc[v] = c}
    IN [i \in Axes |-> [start |-> SetMin({v[i] : v \in image}),
                        stop |-> SetMax({v[i] : v \in image}) + 1]]

TightVoxels(cc, c) ==
    LET tight == TightBox(cc, c)
    IN {v \in DOMAIN cc : \A i \in Axes : tight[i].start <= v[i] /\ v[i] < tight[i].stop}

\* number of voxels of the tight box that belong to another component
OtherComponentCount(cc, c) ==
    Cardinality({v \in TightVoxels(cc, c) : cc[v] # 0 /\ cc[v] # c})

\* number of voxels of the tight box that carry another foreground label
OtherLabelCount(cc, c) ==
    Cardinality({v \in TightVoxels(cc, c) :
                    seg_array[v] # 0 /\ seg_array[v] # CallParams.cropping_lable})

\* the fraction count / size is above the tolerance num / den
Above(count, size, tolerance) == count * tolerance[2] > tolerance[1] * size

\* C1: every returned crop is cut from the box
\* [max(0, tight.start - margin), tight.stop + margin) on every axis, where
\* tight.stop is the largest foreground index + 1.
C1_BoxIsTightBoxPlusMargins ==
    pc = "returned" =>
        LET cc == CallCC
        IN \A n \in DOMAIN all_blobs :
            LET tight == TightBox(cc, all_blobs[n].label)
            IN \A i \in Axes :
                /\ all_blobs[n].ranges[i].start
                       = Max(0, tight[i].start - CallParams.slice_margins[i])
                /\ all_blobs[n].ranges[i].stop
                       = tight[i].stop + CallParams.slice_margins[i]

\* C4: with mask_dilation = k > 0 the blobs are the connected components of
\* the mask dilated k times: regions that the dilation joins are one blob.
C4_BlobsOfDilatedMask ==
    pc = "returned" /\ CallParams.mask_dilation > 0 =>
        NumLabels(CallCC) =
            Len(ComponentSeq(binary_dilation(binary_volume(seg_array, CallParams.cropping_lable),
                                             ShapeOf(seg_array), CallParams.mask_dilation),
                             ShapeOf(seg_array)))

\* C5 as stated: of two components of cropping_label, one whose box holds
\* voxels of another foreground label in a fraction above the tolerance is
\* rejected, and one whose box holds none is returned.
C5_OtherLabelsRejectBlob ==
    pc = "returned" =>
        LET cc == CallCC
            size == [c \in 1..NumLabels(cc) |-> Cardinality(TightVoxels(cc, c))]
            other == [c \in 1..NumLabels(cc) |-> OtherLabelCount(cc, c)]
        IN \A a, b \in 1..NumLabels(cc) :
            (/\ a # b
             /\ Above(other[a], size[a], CallParams.allowed_perc_other_blobs)
             /\ other[b] = 0)
            => (a \notin AcceptedLabels /\ b \in AcceptedLabels)

\* C5 amended: the filter counts the voxels of other connected components
\* of the cropping_label mask.  Of two components, one whose box holds voxels
\* of other components in a fraction above the tolerance is rejected, and
\* one whose box holds none is returned.
C5_OtherComponentsRejectBlob ==
    pc = "returned" =>
        LET cc == CallCC
            size == [c \in 1..NumLabels(cc) |-> Cardinality(TightVoxels(cc, c))]
            other == [c \in 1..NumLabels(cc) |-> OtherComponentCount(cc, c)]
        IN \A a, b \in 1..NumLabels(cc) :
            (/\ a # b
             /\ Above(other[a], size[a], CallParams.allowed_perc_other_blobs)
             /\ other[b] = 0)
            => (a \notin AcceptedLabels /\ b \in AcceptedLabels)

\* a call that returned, with a rejected blob whose box holds too much of
\* another component and a returned blob whose box holds none
C5_Witness ==
    /\ pc = "returned"
    /\ LET cc == CallCC
       IN \E a, b \in 1..NumLabels(cc) :
            /\ a # b
            /\ Above(OtherComponentCount(cc, a), Cardinality(TightVoxels(cc, a)),
                     CallParams.allowed_perc_other_blobs)
            /\ OtherComponentCount(cc, b) = 0
            /\ a \notin AcceptedLabels
            /\ b \in AcceptedLabels

\* C10: for every component the count used by the overlap test is the
\* number of voxels of its tight box that belong to other components, and
\* the component is rejected exactly when count / box size is above the
\* tolerance.
C10_OverlapCountExact ==
    pc = "returned" =>
        LET cc == CallCC
        IN \A c \in 1..NumLabels(cc) :
            LET other == OtherComponentCount(cc, c)
            IN /\ other_non_bg_occurances(cc, c, ShapeOf(seg_array)) = other
               /\ c \notin AcceptedLabels
                      <=> Above(other, Cardinality(TightVoxels(cc, c)),
                                CallParams.allowed_perc_other_blobs)

\* a call that returned a blob whose tight box holds no background voxel,
\* and a blob whose box holds other components in a fraction equal to a
\* positive tolerance
C10_Witness ==
    /\ pc = "returned"
    /\ LET cc == CallCC
       IN /\ \E c \in AcceptedLabels : \A v \in TightVoxels(cc, c) : cc[v] # 0
          /\ \E c \in AcceptedLabels :
                /\ OtherComponentCount(cc, c) > 0
                /\ OtherComponentCount(cc, c) * CallParams.allowed_perc_other_blobs[2]
                       = CallParams.allowed_perc_other_blobs[1] * Cardinality(TightVoxels(cc, c))

----------------------------------------------------------------------------
(* Properties of create_dataset, checked under Spec                        *)

\* the np.save calls that wrote a CT array
CtWrites == {i \in DOMAIN writes : writes[i].content.array = "ct"}

\* the source pair at position k of the listing has mismatched shapes
Mismatched(k) == files[k].ct_shape # ShapeOf(files[k].seg)

\* C2: two distinct crops persisted from one source volume never get the
\* same output file name.
C2_CropNamesDistinct ==
    \A i, j \in CtWrites :
        (/\ i < j
         /\ writes[i].content.src = writes[j].content.src
         /\ writes[i].content.blob # writes[j].content.blob)
        => writes[i].path # writes[j].path

\* C3: while the crops of a source volume are processed, the loaded label
\* volume keeps its load-time values.
C3_LoadedLabelsReadOnly ==
    pc = "blobs" => seg_array = files[file_idx].seg

\* C6: the CT and label arrays persisted for a crop have the same shape,
\* and every axis of it is at least the min_sizes entry.
C6_PersistedShapes ==
    \A i \in DOMAIN writes :
        /\ \A a \in Axes : writes[i].content.shape[a] >= config.min_sizes[a]
        /\ \A j \in DOMAIN writes :
            (/\ writes[i].content.src = writes[j].content.src
             /\ writes[i].content.blob = writes[j].content.blob)
            => writes[i].content.shape = writes[j].content.shape

\* a resampled crop was just persisted whose margined box reaches beyond
\* the volume
C6_Witness ==
    /\ pc = "blobs"
    /\ blob_idx > 0
    /\ NeedsResample(config)
    /\ \E i \in DOMAIN writes :
        /\ writes[i].content.src = file_idx
        /\ writes[i].content.blob = blob_idx - 1
    /\ \E a \in Axes : all_blobs[blob_idx].ranges[a].stop > ShapeOf(seg_array)[a]

\* C7: a pair with mismatched shapes ends the run where it is read: nothing
\* of it or of a later pair is persisted, no later pair is read, and what
\* was persisted before stays.
C7_MismatchHalts ==
    /\ [](\A k \in DOMAIN files :
            Mismatched(k) =>
                /\ file_idx <= k
                /\ file_idx = k => pc = "halted"
                /\ \A i \in DOMAIN writes : writes[i].content.src < k)
    /\ [][pc = "halted" => (disk' = disk /\ writes' = writes /\ file_idx' = file_idx)]_vars

\* the run halted at a second pair, after crops of the first were persisted
C7_Witness ==
    /\ pc = "halted"
    /\ file_idx = 2
    /\ disk # {}

\* C8: with remove_liver_label and no resampling, a persisted label voxel
\* is 1 only where the loaded label was 2, and is not 1 where it was 1.
C8_RemapCorrect ==
    config.remove_liver_label =>
        \A e \in disk :
            (e.content.array = "seg" /\ ~e.content.resampled) =>
                \A v \in DOMAIN e.content.values :
                    /\ e.content.values[v] = 1 => files[e.content.src].seg[v] = 2
                    /\ files[e.content.src].seg[v] = 1 => e.content.values[v] # 1

\* a persisted label array of a later crop that overlaps an earlier one:
\* it holds a remapped 1, and a voxel loaded as 2 that two remappings took to 0
C8_Witness ==
    /\ config.remove_liver_label
    /\ \E e \in disk :
        /\ e.content.array = "seg"
        /\ ~e.content.resampled
        /\ e.content.blob > 0
        /\ \E v \in DOMAIN e.content.values :
            e.content.values[v] = 1 /\ files[e.content.src].seg[v] = 2
        /\ \E v \in DOMAIN e.content.values :
            e.content.values[v] = 0 /\ files[e.content.src].seg[v] = 2

\* C9: the CT array of a crop is written inside the CT subdirectory, its
\* label array inside the label subdirectory, at two different paths.
C9_SeparateCtAndLabelFiles ==
    \A i \in DOMAIN writes :
        /\ writes[i].content.array = "ct" => writes[i].path.dir = new_ct_dir
        /\ writes[i].content.array = "seg" => writes[i].path.dir = new_seg_dir
        /\ \A j \in DOMAIN writes :
            (/\ writes[i].content.src = writes[j].content.src
             /\ writes[i].content.blob = writes[j].content.blob
             /\ writes[i].content.array # writes[j].content.array)
            => writes[i].path # writes[j].path

====
